---- MODULE Spec2Model ----
(***************************************************************************)
(* Model of the allocation engine of the Global Investment Simulator      *)
(* (src/src/App.tsx, autoAllocate) and of the part of the App component    *)
(* that holds the preferences and the memoised result.                     *)
(*                                                                         *)
(* Numbers.  The engine computes with JavaScript numbers.  They are        *)
(* modelled as exact rationals <<n, d>> in lowest terms with d > 0, so     *)
(* division, the 0.4 threshold and the half-percent caps are exact; IEEE   *)
(* rounding (the 1e-6 tolerance of the specification) is not modelled.     *)
(***************************************************************************)
EXTENDS Integers, Sequences, FiniteSets, TLC

VARIABLES inputs, rows, calls

vars == <<inputs, rows, calls>>

----------------------------------------------------------------------------
(* Exact rational arithmetic standing for the JavaScript number type.      *)

Abs(x) == IF x < 0 THEN -x ELSE x

RECURSIVE Gcd(_, _)
Gcd(a, b) == IF b = 0 THEN a ELSE Gcd(b, a % b)

Rat(n, d) ==
  LET g == Gcd(Abs(n), Abs(d))
      s == IF d < 0 THEN -1 ELSE 1
  IN  <<(s * n) \div g, (s * d) \div g>>

Num(n) == <<n, 1>>

RAdd(x, y) == IF x[2] = y[2] THEN Rat(x[1] + y[1], x[2])
              ELSE Rat(x[1] * y[2] + y[1] * x[2], x[2] * y[2])
RSub(x, y) == RAdd(x, <<-y[1], y[2]>>)
RMul(x, y) == Rat(x[1] * y[1], x[2] * y[2])
RDiv(x, y) == Rat(x[1] * y[2], x[2] * y[1])
RLt(x, y)  == x[1] * y[2] < y[1] * x[2]
RGt(x, y)  == RLt(y, x)
RGe(x, y)  == ~RLt(x, y)
RMax(x, y) == IF RLt(x, y) THEN y ELSE x
RMin(x, y) == IF RLt(y, x) THEN y ELSE x

Zero == Num(0)
Hundred == Num(100)

(* clamp(min, v, max) = Math.max(min, Math.min(max, v)) *)
clamp(min, v, max) == RMax(min, RMin(max, v))

----------------------------------------------------------------------------
(* The rule table and the category weights.                                *)

Risks == {"Conservative", "Moderate", "Moderate-Aggressive", "Aggressive"}

Categories == <<"equity", "fixed", "gold", "reits", "cash", "crypto">>

W(e, f, g, r, c, k) ==
  [equity |-> Num(e), fixed |-> Num(f), gold |-> Num(g),
   reits |-> Num(r), cash |-> Num(c), crypto |-> Num(k)]

profiles ==
  [r \in Risks |->
     CASE r = "Conservative"        -> W(35, 45, 12, 4, 4, 0)
       [] r = "Moderate"            -> W(60, 25, 8, 5, 2, 0)
       [] r = "Moderate-Aggressive" -> W(70, 15, 7, 5, 1, 2)
       [] r = "Aggressive"          -> W(80, 8, 5, 5, 0, 2)]

(* the two amounts exchanged: 10 for the long horizon, 5 for the short *)
HorizonTiltSwapped(base, i) ==
  IF i.horizon >= 10
    THEN [base EXCEPT !.equity = RAdd(@, Num(10)), !.fixed = RSub(@, Num(10))]
    ELSE IF i.horizon <= 3
      THEN [base EXCEPT !.equity = RSub(@, Num(5)), !.fixed = RAdd(@, Num(5))]
      ELSE base

(* the long-horizon test written "> 10" *)
HorizonTiltStrict(base, i) ==
  IF i.horizon > 10
    THEN [base EXCEPT !.equity = RAdd(@, Num(5)), !.fixed = RSub(@, Num(5))]
    ELSE IF i.horizon <= 3
      THEN [base EXCEPT !.equity = RSub(@, Num(10)), !.fixed = RAdd(@, Num(10))]
      ELSE base

(* if (i.horizon >= 10) {equity += 5; fixed -= 5}                          *)
(* else if (i.horizon <= 3) {equity -= 10; fixed += 10}                    *)
HorizonTilt(base, i) ==
  IF i.horizon >= 10
    THEN [base EXCEPT !.equity = RAdd(@, Num(5)), !.fixed = RSub(@, Num(5))]
    ELSE IF i.horizon <= 3
      THEN [base EXCEPT !.equity = RSub(@, Num(10)), !.fixed = RAdd(@, Num(10))]
      ELSE base

(* "gold = 0" forgotten *)
GoldOptOutKeep(base, i) ==
  IF ~i.includeGold
    THEN [base EXCEPT !.fixed = RAdd(@, base.gold)]
    ELSE base

(* if (!i.includeGold) {fixed += gold; gold = 0} *)
GoldOptOut(base, i) ==
  IF ~i.includeGold
    THEN [base EXCEPT !.fixed = RAdd(@, base.gold), !.gold = Zero]
    ELSE base

(* the braces dropped: "crypto = 0" runs whatever includeCrypto is *)
CryptoOptOutUnbraced(base, i) ==
  [base EXCEPT !.equity = IF ~i.includeCrypto THEN RAdd(@, base.crypto) ELSE @,
               !.crypto = Zero]

(* if (!i.includeCrypto) {equity += crypto; crypto = 0} *)
CryptoOptOut(base, i) ==
  IF ~i.includeCrypto
    THEN [base EXCEPT !.equity = RAdd(@, base.crypto), !.crypto = Zero]
    ELSE base

(* crypto clamped, the excess not given to equity *)
CryptoCapDropExcess(base, i) ==
  IF i.includeCrypto /\ RGt(base.crypto, i.cryptoCapPct)
    THEN [base EXCEPT !.crypto = i.cryptoCapPct]
    ELSE base

(* the cap test written "crypto < cap" *)
CryptoCapFlipped(base, i) ==
  IF i.includeCrypto /\ RLt(base.crypto, i.cryptoCapPct)
    THEN LET diff == RSub(base.crypto, i.cryptoCapPct)
         IN  [base EXCEPT !.equity = RAdd(@, diff), !.crypto = i.cryptoCapPct]
    ELSE base

(* if (i.includeCrypto && crypto > cap) {equity += crypto - cap; crypto = cap} *)
CryptoCap(base, i) ==
  IF i.includeCrypto /\ RGt(base.crypto, i.cryptoCapPct)
    THEN LET diff == RSub(base.crypto, i.cryptoCapPct)
         IN  [base EXCEPT !.equity = RAdd(@, diff), !.crypto = i.cryptoCapPct]
    ELSE base

(* sum = equity + fixed + gold + reits + cash + (crypto || 0) *)
WeightSum(base) ==
  RAdd(RAdd(RAdd(RAdd(RAdd(base.equity, base.fixed), base.gold),
                 base.reits), base.cash), base.crypto)

(* for (k of Object.keys(base)) base[k] = (base[k] / sum) * 100 *)
Normalize(base) ==
  LET sum == WeightSum(base)
  IN  [k \in DOMAIN base |-> RMul(RDiv(base[k], sum), Hundred)]

Step(name, base, i) ==
  CASE name = "tilt"      -> HorizonTilt(base, i)
    [] name = "gold"      -> GoldOptOut(base, i)
    [] name = "cryptoOut" -> CryptoOptOut(base, i)
    [] name = "cap"       -> CryptoCap(base, i)

RECURSIVE ApplySteps(_, _, _)
ApplySteps(order, base, i) ==
  IF order = <<>> THEN base
  ELSE ApplySteps(Tail(order), Step(Head(order), base, i), i)

(* The order of lines 45-53. *)
StepOrder == <<"tilt", "gold", "cryptoOut", "cap">>

(* base after the first k adjustment steps (k = 0: the profile's entry) *)
WeightsAfter(k, i) == ApplySteps(SubSeq(StepOrder, 1, k), profiles[i.risk], i)

AdjustedWeights(i) == ApplySteps(StepOrder, profiles[i.risk], i)

NormalizedWeights(i) == Normalize(AdjustedWeights(i))

----------------------------------------------------------------------------
(* The region split "60|40": a string, here the sequence of its characters.*)

Digits == <<"0", "1", "2", "3", "4", "5", "6", "7", "8", "9">>

IsDigit(c) == \E d \in 1..10 : Digits[d] = c

DigitVal(c) == (CHOOSE d \in 1..10 : Digits[d] = c) - 1

Chars(str) ==
  CASE str = "80|20"  -> <<"8", "0", "|", "2", "0">>
    [] str = "70|30"  -> <<"7", "0", "|", "3", "0">>
    [] str = "60|40"  -> <<"6", "0", "|", "4", "0">>
    [] str = "50|50"  -> <<"5", "0", "|", "5", "0">>
    [] str = "40|60"  -> <<"4", "0", "|", "6", "0">>
    [] str = "30|70"  -> <<"3", "0", "|", "7", "0">>
    [] str = "100|0"  -> <<"1", "0", "0", "|", "0">>
    [] str = "0|100"  -> <<"0", "|", "1", "0", "0">>
    [] str = "90|10"  -> <<"9", "0", "|", "1", "0">>
    [] str = "60|30"  -> <<"6", "0", "|", "3", "0">>
    [] str = "70|40"  -> <<"7", "0", "|", "4", "0">>

(* String.prototype.split(sep): the pieces between the separators. *)
RECURSIVE SplitFrom(_, _, _, _)
SplitFrom(cs, sep, k, cur) ==
  IF k > Len(cs) THEN <<cur>>
  ELSE IF cs[k] = sep THEN <<cur>> \o SplitFrom(cs, sep, k + 1, <<>>)
  ELSE SplitFrom(cs, sep, k + 1, Append(cur, cs[k]))

split(cs, sep) == SplitFrom(cs, sep, 1, <<>>)

(* parseFloat on an unsigned decimal integer literal: the value of the     *)
(* longest prefix of digits (every split string of the model has one).     *)
RECURSIVE ParseDigits(_, _, _)
ParseDigits(cs, k, acc) ==
  IF k > Len(cs) \/ ~IsDigit(cs[k]) THEN acc
  ELSE ParseDigits(cs, k + 1, 10 * acc + DigitVal(cs[k]))

parseFloat(cs) == Num(ParseDigits(cs, 1, 0))

(* const [usaPct, indPct] = i.regionSplit.split("|").map(parseFloat) *)
RegionPcts(i) ==
  LET parts == split(Chars(i.regionSplit), "|")
  IN  [usaPct |-> parseFloat(parts[1]), indPct |-> parseFloat(parts[2])]

----------------------------------------------------------------------------
(* The line items.                                                          *)

sectorTiltUSA ==
  << [name |-> "Broad Market",  pct |-> Num(55), instr |-> "S&P 500 ETF (VOO)"],
     [name |-> "Technology/AI", pct |-> Num(20), instr |-> "Nasdaq 100 (QQQ)"],
     [name |-> "Healthcare",    pct |-> Num(10), instr |-> "Healthcare ETF (XLV)"],
     [name |-> "Energy",        pct |-> Num(8),  instr |-> "Energy ETF (XLE)"],
     [name |-> "Industrials",   pct |-> Num(7),  instr |-> "Industrials ETF (XLI)"] >>

sectorTiltIND ==
  << [name |-> "Broad Market",        pct |-> Num(55), instr |-> "Nifty 50 ETF"],
     [name |-> "Midcap Growth",       pct |-> Num(20), instr |-> "Nifty Midcap 150"],
     [name |-> "Financials",          pct |-> Num(10), instr |-> "Bank Nifty ETF"],
     [name |-> "Manufacturing/Infra", pct |-> Num(10), instr |-> "CPSE/Infra ETF"],
     [name |-> "Export-Tech",         pct |-> Num(5),  instr |-> "IT Services ETF"] >>

Row(assetClass, instrument, country, pct, lo, hi, risk, rationale) ==
  [assetClass |-> assetClass, instrument |-> instrument, country |-> country,
   pct |-> pct, expCagr |-> <<lo, hi>>, risk |-> risk, rationale |-> rationale]

(* push(...) guarded by the condition of the enclosing if *)
pushIf(cond, rs, row) == IF cond THEN Append(rs, row) ELSE rs

(* (weight * regionPct) / 100 *)
Share(weight, regionPct) == RDiv(RMul(weight, regionPct), Hundred)

(* sectorTiltUSA.forEach(...) *)
EquityRowsUSA(equityUSA) ==
  [k \in 1..Len(sectorTiltUSA) |->
     LET s == sectorTiltUSA[k]
         tech == s.name = "Technology/AI"
     IN  Row("Equity", s.instr, "USA", Share(equityUSA, s.pct),
             IF tech THEN Num(9) ELSE Num(7), IF tech THEN Num(12) ELSE Num(10),
             IF tech THEN "High" ELSE "Medium", <<"Sector tilt", s.name>>)]

(* sectorTiltIND.forEach(...); only "Midcap Growth" includes "Midcap" *)
EquityRowsIND(equityIND) ==
  [k \in 1..Len(sectorTiltIND) |->
     LET s == sectorTiltIND[k]
         mid == s.name = "Midcap Growth"
     IN  Row("Equity", s.instr, "India", Share(equityIND, s.pct),
             IF mid THEN Num(11) ELSE Num(8), IF mid THEN Num(14) ELSE Num(12),
             IF mid THEN "High" ELSE "Medium", <<"Sector tilt", s.name>>)]

FixedRows(rs, base, usaPct, indPct) ==
  LET fixedUSA == Share(base.fixed, usaPct)
      fixedIND == Share(base.fixed, indPct)
      r1 == pushIf(RGt(fixedUSA, Zero), rs,
              Row("Fixed Income", "UST Bills/Notes Ladder (T-Bills, 2-5y Notes)", "USA",
                  fixedUSA, Rat(7, 2), Num(5), "Low", "Income & drawdown buffer"))
  IN  pushIf(RGt(fixedIND, Zero), r1,
        Row("Fixed Income", "India G-Secs/SDL Ladder (T-Bills, 5-10y)", "India",
            fixedIND, Num(6), Rat(15, 2), "Low", "Carry + rate diversification"))

GoldRows(rs, base, usaPct, indPct) ==
  IF RGt(base.gold, Zero)
    THEN LET goldUSA == Share(base.gold, usaPct)
             goldIND == Share(base.gold, indPct)
             r1 == pushIf(RGt(goldUSA, Zero), rs,
                     Row("Commodity", "Gold ETF (GLD/IAU)", "Global",
                         goldUSA, Rat(9, 2), Num(6), "Low", "Inflation & crisis hedge"))
         IN  pushIf(RGt(goldIND, Zero), r1,
               Row("Commodity", "India Gold ETF/SGB", "India",
                   goldIND, Rat(9, 2), Num(6), "Low", "Local currency hedge"))
    ELSE rs

(* the India share computed from usaPct, as in a copied line *)
ReitsRowsCopied(rs, base, usaPct, indPct) ==
  LET reitsUSA == Share(base.reits, usaPct)
      reitsIND == Share(base.reits, usaPct)
      r1 == pushIf(RGt(reitsUSA, Zero), rs,
              Row("REITs", "U.S. REIT ETF (VNQ)", "USA",
                  reitsUSA, Num(5), Num(7), "Medium", "Income + diversification"))
  IN  pushIf(RGt(reitsIND, Zero), r1,
        Row("REITs", "India REIT/InvIT", "India",
            reitsIND, Num(6), Num(8), "Medium", "Infra & real-asset exposure"))

ReitsRows(rs, base, usaPct, indPct) ==
  LET reitsUSA == Share(base.reits, usaPct)
      reitsIND == Share(base.reits, indPct)
      r1 == pushIf(RGt(reitsUSA, Zero), rs,
              Row("REITs", "U.S. REIT ETF (VNQ)", "USA",
                  reitsUSA, Num(5), Num(7), "Medium", "Income + diversification"))
  IN  pushIf(RGt(reitsIND, Zero), r1,
        Row("REITs", "India REIT/InvIT", "India",
            reitsIND, Num(6), Num(8), "Medium", "Infra & real-asset exposure"))

CashRows(rs, base, usaPct, indPct) ==
  LET cashUSA == Share(base.cash, usaPct)
      cashIND == Share(base.cash, indPct)
      r1 == pushIf(RGt(cashUSA, Zero), rs,
              Row("Cash", "USD MMF / T-Bill ETF (BIL/SGOV)", "USA",
                  cashUSA, Num(3), Num(4), "Low", "Dry powder for dips"))
  IN  pushIf(RGt(cashIND, Zero), r1,
        Row("Cash", "INR Liquid Fund / T-Bill", "India",
            cashIND, Num(5), Num(6), "Low", "Liquidity buffer"))

CryptoRows(rs, base, i) ==
  pushIf(i.includeCrypto /\ RGt(base.crypto, Zero), rs,
    Row("Crypto", "BTC/ETH Spot ETF Blend", "Global",
        base.crypto, Num(12), Num(20), "Very High", "Speculative convexity with cap"))

(* The rows array as it stands before the cleanup of line 129. *)
RawRows(i) ==
  LET base == NormalizedWeights(i)
      rp == RegionPcts(i)
      equityUSA == Share(base.equity, rp.usaPct)
      equityIND == Share(base.equity, rp.indPct)
      r0 == EquityRowsUSA(equityUSA) \o EquityRowsIND(equityIND)
      r1 == FixedRows(r0, base, rp.usaPct, rp.indPct)
      r2 == GoldRows(r1, base, rp.usaPct, rp.indPct)
      r3 == ReitsRows(r2, base, rp.usaPct, rp.indPct)
      r4 == CashRows(r3, base, rp.usaPct, rp.indPct)
  IN  CryptoRows(r4, base, i)

(* The threshold of line 131. *)
TinyThreshold == Rat(4, 10)

IsTiny(r) == RLt(r.pct, TinyThreshold)

RECURSIVE SumPct(_)
SumPct(rs) == IF rs = <<>> THEN Zero ELSE RAdd(Head(rs).pct, SumPct(Tail(rs)))

ConsolidatedRow(tiny) ==
  Row("Cash", "Consolidated", "Global", tiny, Zero, Zero, "Low", "Rounded tiny slices")

(* the tiny slices dropped without the Consolidated row *)
ConsolidateDropTiny(rs) == SelectSeq(rs, LAMBDA r : ~IsTiny(r))

(* the Consolidated row appended without the test "tiny > 0" *)
ConsolidateAlways(rs) ==
  Append(SelectSeq(rs, LAMBDA r : ~IsTiny(r)),
         ConsolidatedRow(SumPct(SelectSeq(rs, IsTiny))))

(* rows.forEach(r => { if (r.pct < 0.4) tiny += r.pct; else cleaned.push(r) }); *)
(* if (tiny > 0) cleaned.push({... Consolidated ...})                           *)
Consolidate(rs) ==
  LET cleaned == SelectSeq(rs, LAMBDA r : ~IsTiny(r))
      tiny == SumPct(SelectSeq(rs, IsTiny))
  IN  pushIf(RGt(tiny, Zero), cleaned, ConsolidatedRow(tiny))

(* the comparator written a.pct - b.pct *)
compareAsc(a, b) == RSub(a.pct, b.pct)

(* the comparator (a, b) => b.pct - a.pct *)
compare(a, b) == RSub(b.pct, a.pct)

(* Array.prototype.sort is stable: a row moves behind the rows it does not  *)
(* have to precede, in their order.                                         *)
RECURSIVE InsertSorted(_, _)
InsertSorted(sorted, r) ==
  IF sorted = <<>> THEN <<r>>
  ELSE IF RGt(compare(Head(sorted), r), Zero)
         THEN <<r>> \o sorted
         ELSE <<Head(sorted)>> \o InsertSorted(Tail(sorted), r)

RECURSIVE sort(_)
sort(rs) ==
  IF rs = <<>> THEN <<>>
  ELSE InsertSorted(sort(SubSeq(rs, 1, Len(rs) - 1)), rs[Len(rs)])

(* the rows array hoisted out of the function: it keeps the previous list *)
autoAllocateShared(i) == sort(Consolidate(rows \o RawRows(i)))

(* lines 36-136 *)
autoAllocate(i) == sort(Consolidate(RawRows(i)))

----------------------------------------------------------------------------
(* The preferences the engine is called with.                               *)

Horizons == {1, 3, 4, 7, 9, 10, 12, 30}

(* The options of the region select; the two one-region splits and a      *)
(* lopsided one, which only a direct call of the engine can pass.          *)
RegionOptions == {"80|20", "70|30", "60|40", "50|50", "40|60", "30|70"}

RegionSplits == RegionOptions \cup {"100|0", "0|100", "90|10"}

CryptoCaps == {Num(0), Rat(1, 4), Num(1), Rat(3, 2), Num(2), Num(10)}

(* Numbers typed into the budget, horizon and cap fields, before the clamp. *)
BudgetsTyped == {Num(0), Num(100), Num(25000)}

HorizonsTyped == {0, 3, 10, 31}

CapsTyped == {Num(-1), Rat(1, 2), Num(1), Num(11)}

Currencies == {"USD", "INR"}

RebalFreqs == {"Quarterly", "Annual"}

(* The initial state of the App component. *)
DefaultInputs ==
  [budget |-> Num(25000), horizon |-> 7, risk |-> "Moderate", regionSplit |-> "60|40",
   currency |-> "USD", includeGold |-> TRUE, includeCrypto |-> FALSE,
   cryptoCapPct |-> Num(3), rebalFreq |-> "Annual"]

(* The cap is read only when crypto is included: records without crypto   *)
(* carry the default cap, the others every cap of cs.                      *)
Prefs(hs, ss, cs) ==
  {[DefaultInputs EXCEPT !.horizon = h, !.risk = r, !.regionSplit = s,
                         !.includeGold = g, !.includeCrypto = TRUE, !.cryptoCapPct = k] :
     h \in hs, r \in Risks, s \in ss, g \in BOOLEAN, k \in cs}
  \cup
  {[DefaultInputs EXCEPT !.horizon = h, !.risk = r, !.regionSplit = s,
                         !.includeGold = g, !.includeCrypto = FALSE] :
     h \in hs, r \in Risks, s \in ss, g \in BOOLEAN}

ValidPreferences == Prefs(Horizons, RegionSplits, CryptoCaps)

(* Calls that break one constraint of the preferences record. *)
InvalidPreferences ==
  Prefs({0, 31}, {"60|40"}, {Num(1)})
    \cup Prefs({4}, {"60|30", "70|40"}, {Num(1)})
    \cup Prefs({4}, {"60|40"}, {Num(-1), Num(11)})

IsValid(i) ==
  LET rp == RegionPcts(i)
  IN  /\ i.horizon \in 1..30
      /\ RGe(i.cryptoCapPct, Zero) /\ RGe(Num(10), i.cryptoCapPct)
      /\ RGe(rp.usaPct, Zero) /\ RGe(rp.indPct, Zero)
      /\ RAdd(rp.usaPct, rp.indPct) = Hundred

----------------------------------------------------------------------------
(* The state machine: the preferences record held by the App component,   *)
(* the list the engine returned for it, and how often the engine ran.      *)

MaxCalls == 6

(* (inputs as any).includeGold = inputs.includeGold === true || ...        *)
BooleanFlags(i) ==
  [i EXCEPT !.includeGold = (@ = TRUE), !.includeCrypto = (@ = TRUE)]

(* One run of the engine on the record i, which becomes the current one:   *)
(* rows = useMemo(() => autoAllocate(inputs), [inputs])                     *)
Run(i) ==
  /\ inputs' = BooleanFlags(i)
  /\ rows' = autoAllocate(BooleanFlags(i))
  /\ calls' = calls + 1

(* The App component as useState leaves it, before its first render. *)
Init ==
  /\ inputs = DefaultInputs
  /\ rows = <<>>
  /\ calls = 0

(* The first render. *)
Render ==
  /\ calls = 0
  /\ Run(inputs)

(* onChange of the budget field *)
SetBudget ==
  /\ calls > 0 /\ calls < MaxCalls
  /\ \E v \in BudgetsTyped :
       Run([inputs EXCEPT !.budget = clamp(Num(100), v, Num(10000000))])

(* onChange of the horizon field; the clamp of an integer is an integer *)
SetHorizon ==
  /\ calls > 0 /\ calls < MaxCalls
  /\ \E v \in HorizonsTyped :
       Run([inputs EXCEPT !.horizon = clamp(Num(1), Num(v), Num(30))[1]])

(* onChange of the risk select *)
SetRisk ==
  /\ calls > 0 /\ calls < MaxCalls
  /\ \E r \in Risks : Run([inputs EXCEPT !.risk = r])

(* onChange of the region select *)
SetRegionSplit ==
  /\ calls > 0 /\ calls < MaxCalls
  /\ \E s \in RegionOptions : Run([inputs EXCEPT !.regionSplit = s])

(* onChange of the currency select *)
SetCurrency ==
  /\ calls > 0 /\ calls < MaxCalls
  /\ \E c \in Currencies : Run([inputs EXCEPT !.currency = c])

(* onChange of the gold checkbox *)
SetIncludeGold ==
  /\ calls > 0 /\ calls < MaxCalls
  /\ Run([inputs EXCEPT !.includeGold = ~inputs.includeGold])

(* onChange of the crypto checkbox *)
SetIncludeCrypto ==
  /\ calls > 0 /\ calls < MaxCalls
  /\ Run([inputs EXCEPT !.includeCrypto = ~inputs.includeCrypto])

(* onChange of the cap field, disabled while crypto is excluded *)
SetCryptoCapPct ==
  /\ calls > 0 /\ calls < MaxCalls
  /\ inputs.includeCrypto
  /\ \E v \in CapsTyped :
       Run([inputs EXCEPT !.cryptoCapPct = clamp(Zero, v, Num(10))])

(* onChange of the rebalancing select *)
SetRebalFreq ==
  /\ calls > 0 /\ calls < MaxCalls
  /\ \E f \in RebalFreqs : Run([inputs EXCEPT !.rebalFreq = f])

Next ==
  \/ Render
  \/ SetBudget
  \/ SetHorizon
  \/ SetRisk
  \/ SetRegionSplit
  \/ SetCurrency
  \/ SetIncludeGold
  \/ SetIncludeCrypto
  \/ SetCryptoCapPct
  \/ SetRebalFreq

Spec == Init /\ [][Next]_vars

(* The engine alone, called directly: any record of the preference sets,   *)
(* the invalid ones included, and no list before the first call.           *)
EngineInit ==
  /\ inputs \in ValidPreferences \cup InvalidPreferences
  /\ rows = <<>>
  /\ calls = 0

(* autoAllocate(inputs), called (again) with the preferences as they are *)
Allocate ==
  /\ calls < MaxCalls
  /\ Run(inputs)

EngineSpec == EngineInit /\ [][Allocate]_vars

----------------------------------------------------------------------------
(* Vocabulary of the properties.                                            *)

Called == calls > 0

ValidCall == Called /\ IsValid(inputs)

RowsOf(rs, class) == SelectSeq(rs, LAMBDA r : r.assetClass = class)

IsConsolidated(r) == r.instrument = "Consolidated"

(* The slices of the raw list that the cleanup folds away. *)
Folded(i) == SelectSeq(RawRows(i), LAMBDA r : RLt(r.pct, Rat(2, 5)))

(* by.set(r.country, (by.get(r.country) || 0) + r.pct) *)
pieByRegion(rs, country) == SumPct(SelectSeq(rs, LAMBDA r : r.country = country))

(* rows.slice(0, 8) *)
barExpReturns(rs) == SubSeq(rs, 1, IF Len(rs) < 8 THEN Len(rs) ELSE 8)

----------------------------------------------------------------------------
(* C1: for every valid preferences record the pct of all returned rows,    *)
(* the Consolidated row included, add up to 100.                            *)
C1_SumIs100 == ValidCall => SumPct(rows) = Hundred

C1_Witness ==
  /\ ValidCall
  /\ inputs.includeCrypto /\ inputs.includeGold
  /\ \E k \in 1..Len(rows) : IsConsolidated(rows[k])
  /\ SumPct(rows) = Hundred

(* C2: with gold excluded no returned row is a Commodity row, and with     *)
(* crypto excluded no returned row is a Crypto row.                         *)
C2_OptOut ==
  ValidCall =>
    /\ ~inputs.includeGold => RowsOf(rows, "Commodity") = <<>>
    /\ ~inputs.includeCrypto => RowsOf(rows, "Crypto") = <<>>

C2_Witness ==
  /\ ValidCall
  /\ ~inputs.includeGold /\ ~inputs.includeCrypto
  /\ inputs.risk = "Aggressive"
  /\ RowsOf(rows, "Commodity") = <<>> /\ RowsOf(rows, "Crypto") = <<>>

(* C3: with crypto included there is at most one Crypto row and its pct    *)
(* never exceeds cryptoCapPct; when the profile's crypto weight exceeds    *)
(* the cap the excess goes to equity and a Crypto row that is present      *)
(* carries exactly the cap (Aggressive with cap 1: a Crypto row of 1).     *)
C3_CapEnforced ==
  (ValidCall /\ inputs.includeCrypto) =>
    LET crypto == RowsOf(rows, "Crypto")
        table == profiles[inputs.risk]
        cap == inputs.cryptoCapPct
    IN  /\ Len(crypto) <= 1
        /\ \A k \in 1..Len(crypto) : RGe(cap, crypto[k].pct)
        /\ RGt(table.crypto, cap) =>
             /\ \A k \in 1..Len(crypto) : crypto[k].pct = cap
             /\ NormalizedWeights(inputs).equity =
                  RAdd(HorizonTilt(table, inputs).equity, RSub(table.crypto, cap))
        /\ (inputs.risk = "Aggressive" /\ cap = Num(1)) =>
             (Len(crypto) = 1 /\ crypto[1].pct = Num(1))

C3_Witness ==
  /\ ValidCall /\ inputs.includeCrypto
  /\ inputs.risk = "Aggressive" /\ inputs.cryptoCapPct = Num(1)
  /\ \E k \in 1..Len(rows) : rows[k].assetClass = "Crypto" /\ rows[k].pct = Num(1)

(* C4: every returned row other than the Consolidated row has pct >= 0.4;  *)
(* there is at most one Consolidated row (Cash / Global / Low / 0-0), it   *)
(* is present exactly when the pct folded away add up to more than 0, and  *)
(* it carries exactly that sum.                                             *)
C4_Consolidation ==
  ValidCall =>
    LET cons == SelectSeq(rows, IsConsolidated)
        tiny == SumPct(Folded(inputs))
    IN  /\ \A k \in 1..Len(rows) :
             ~IsConsolidated(rows[k]) => RGe(rows[k].pct, Rat(2, 5))
        /\ Len(cons) <= 1
        /\ (Len(cons) = 1) <=> RGt(tiny, Zero)
        /\ \A k \in 1..Len(cons) :
             /\ cons[k].pct = tiny
             /\ cons[k].assetClass = "Cash" /\ cons[k].country = "Global"
             /\ cons[k].risk = "Low" /\ cons[k].expCagr = <<Zero, Zero>>

(* slices were folded, one of them of pct 0 beside positive ones *)
C4_Witness ==
  /\ ValidCall
  /\ \E k \in 1..Len(rows) : IsConsolidated(rows[k]) /\ RGt(rows[k].pct, Zero)
  /\ Len(Folded(inputs)) >= 2

(* no slice is folded, or only slices of pct 0: no Consolidated row *)
C4_WitnessNone ==
  /\ ValidCall
  /\ Len(Folded(inputs)) > 0
  /\ \A k \in 1..Len(rows) : ~IsConsolidated(rows[k])

(* C5 as stated: the USA rows total usaPct percent and the India rows      *)
(* indiaPct percent of the weight of the region-split categories, and      *)
(* these categories produce only USA and India rows.                        *)
SplitClasses == {"Equity", "Fixed Income", "Commodity", "REITs", "Cash"}

SplitWeight(i) ==
  LET w == NormalizedWeights(i)
  IN  RAdd(RAdd(RAdd(RAdd(w.equity, w.fixed), w.gold), w.reits), w.cash)

RegionShare(i, pct) == RDiv(RMul(SplitWeight(i), pct), Hundred)

C5_AsStated ==
  ValidCall =>
    /\ pieByRegion(rows, "USA") = RegionShare(inputs, RegionPcts(inputs).usaPct)
    /\ pieByRegion(rows, "India") = RegionShare(inputs, RegionPcts(inputs).indPct)
    /\ \A k \in 1..Len(rows) :
         (rows[k].assetClass \in SplitClasses /\ ~IsConsolidated(rows[k]))
           => rows[k].country \in {"USA", "India"}

(* C5, amended: the USA rows, the USA gold share (labelled Global) and the *)
(* USA-share slices folded into the Consolidated row total usaPct percent, *)
(* the India rows and the folded India-share slices total indiaPct percent,*)
(* of the weight of the region-split categories; each such category        *)
(* produces only USA and India rows, but for the Global gold row.           *)
IsGlobalGold(r) == r.assetClass = "Commodity" /\ r.country = "Global"

C5_RegionalConsistency ==
  ValidCall =>
    LET rp == RegionPcts(inputs)
        usaSide(r) == r.country = "USA" \/ IsGlobalGold(r)
        indSide(r) == r.country = "India"
        usa == RAdd(SumPct(SelectSeq(rows, usaSide)),
                    SumPct(SelectSeq(Folded(inputs), usaSide)))
        ind == RAdd(SumPct(SelectSeq(rows, indSide)),
                    SumPct(SelectSeq(Folded(inputs), indSide)))
    IN  /\ usa = RegionShare(inputs, rp.usaPct)
        /\ ind = RegionShare(inputs, rp.indPct)
        /\ \A k \in 1..Len(rows) :
             (rows[k].assetClass \in SplitClasses /\ ~IsConsolidated(rows[k]))
               => (rows[k].country \in {"USA", "India"} \/ IsGlobalGold(rows[k]))

(* a Global gold row, a folded USA-share slice and crypto in one list *)
C5_Witness ==
  /\ ValidCall
  /\ inputs.includeCrypto /\ RowsOf(rows, "Crypto") # <<>>
  /\ \E k \in 1..Len(rows) : IsGlobalGold(rows[k])
  /\ \E k \in 1..Len(Folded(inputs)) : Folded(inputs)[k].country = "USA"

(* C6: the list depends on riskProfile, horizon, regionSplit, includeGold, *)
(* includeCrypto and cryptoCapPct alone: after any sequence of calls it is *)
(* the list the engine returns for the record with budget, currency and    *)
(* rebalanceFrequency replaced by fixed values.                             *)
EngineView(i) ==
  [i EXCEPT !.budget = Num(100), !.currency = "USD", !.rebalFreq = "Quarterly"]

C6_Independent == Called => rows = autoAllocate(EngineView(inputs))

C6_Witness ==
  /\ calls >= 2
  /\ inputs.budget # Num(100) /\ inputs.currency = "INR"
  /\ inputs.rebalFreq = "Annual"
  /\ rows = autoAllocate(EngineView(inputs))

(* C7 as stated: a call with an out-of-range horizon or cap, or with a     *)
(* region split that does not sum to 100, never returns a list that breaks *)
(* the sum-to-100 invariant.                                                *)
C7_InvalidRejected ==
  (Called /\ ~IsValid(inputs)) => (Len(rows) > 0 => SumPct(rows) = Hundred)

(* C8: the returned list is sorted descending by pct, the Consolidated row *)
(* placed by its pct, so the first 8 rows are the 8 largest allocations.   *)
C8_SortedDescending ==
  Called =>
    /\ \A k \in 1..(Len(rows) - 1) : RGe(rows[k].pct, rows[k + 1].pct)
    /\ \A a \in 1..Len(barExpReturns(rows)) : \A b \in 9..Len(rows) :
         RGe(barExpReturns(rows)[a].pct, rows[b].pct)

C8_Witness ==
  /\ ValidCall
  /\ Len(rows) > 8
  /\ \E k \in 1..(Len(rows) - 1) :
       IsConsolidated(rows[k]) /\ RGt(rows[k].pct, rows[k + 1].pct)

(* C9 as stated: the Equity rows total the equity weight and the Fixed     *)
(* Income rows the fixed-income weight of the rule table after horizon     *)
(* tilt, gold opt-out, crypto opt-out and cap.                              *)
TiltOf(i) == IF i.horizon >= 10 THEN 5 ELSE IF i.horizon <= 3 THEN -10 ELSE 0

ExpectedEquity(i) ==
  LET t == profiles[i.risk]
      moved == IF ~i.includeCrypto THEN t.crypto
               ELSE RMax(Zero, RSub(t.crypto, i.cryptoCapPct))
  IN  RAdd(RAdd(t.equity, Num(TiltOf(i))), moved)

ExpectedFixed(i) ==
  LET t == profiles[i.risk]
  IN  RAdd(RSub(t.fixed, Num(TiltOf(i))), IF ~i.includeGold THEN t.gold ELSE Zero)

C9_AsStated ==
  ValidCall =>
    /\ SumPct(RowsOf(rows, "Equity")) = ExpectedEquity(inputs)
    /\ SumPct(RowsOf(rows, "Fixed Income")) = ExpectedFixed(inputs)

(* C9, amended: the Equity rows together with the Equity slices below 0.4  *)
(* folded into the Consolidated row total the equity weight, and likewise  *)
(* the Fixed Income rows the fixed-income weight; Moderate, horizon 7,     *)
(* gold on, crypto off, 60|40 gives Equity 60 and Fixed Income 25, and     *)
(* horizon 12 gives 65 and 20.                                              *)
C9_ClassTotals ==
  ValidCall =>
    LET eq == SumPct(RowsOf(rows, "Equity"))
        fx == SumPct(RowsOf(rows, "Fixed Income"))
        scenario == /\ inputs.risk = "Moderate" /\ inputs.regionSplit = "60|40"
                    /\ inputs.includeGold /\ ~inputs.includeCrypto
    IN  /\ RAdd(eq, SumPct(RowsOf(Folded(inputs), "Equity"))) = ExpectedEquity(inputs)
        /\ RAdd(fx, SumPct(RowsOf(Folded(inputs), "Fixed Income"))) = ExpectedFixed(inputs)
        /\ (scenario /\ inputs.horizon = 7) => (eq = Num(60) /\ fx = Num(25))
        /\ (scenario /\ inputs.horizon = 12) => (eq = Num(65) /\ fx = Num(20))

(* an Equity slice was folded, under a tilt, a gold opt-out and a cap *)
C9_Witness ==
  /\ ValidCall
  /\ RowsOf(Folded(inputs), "Equity") # <<>>
  /\ inputs.horizon >= 10 /\ ~inputs.includeGold
  /\ inputs.includeCrypto /\ RGt(profiles[inputs.risk].crypto, inputs.cryptoCapPct)

(* C10 as stated: some valid preferences give a different normalized       *)
(* weight tuple when the four adjustment steps run in another order.        *)
StepOrders ==
  {o \in [1..Len(StepOrder) -> {StepOrder[k] : k \in 1..Len(StepOrder)}] :
     \A a, b \in 1..Len(StepOrder) : a # b => o[a] # o[b]}

WeightsInOrder(o, i) == Normalize(ApplySteps(o, profiles[i.risk], i))

C10_OrderMatters ==
  Called =>
    \E i \in ValidPreferences : \E o \in StepOrders :
      WeightsInOrder(o, i) # NormalizedWeights(i)

(* C10, amended: the order of horizon tilt, gold opt-out, crypto opt-out   *)
(* and crypto cap does not affect the normalized weights: for every valid  *)
(* preferences record every order of the four steps gives the tuple of     *)
(* the order tilt, gold opt-out, crypto opt-out, cap.                       *)
C10_OrderIrrelevant ==
  ValidCall => \A o \in StepOrders : WeightsInOrder(o, inputs) = NormalizedWeights(inputs)

(* tilt, gold opt-out and cap all change the weights of this record *)
C10_Witness ==
  /\ ValidCall
  /\ inputs.horizon <= 3 /\ ~inputs.includeGold
  /\ inputs.includeCrypto /\ RGt(profiles[inputs.risk].crypto, inputs.cryptoCapPct)
  /\ AdjustedWeights(inputs) # profiles[inputs.risk]

(* C11: for every valid preferences record all six category weights are    *)
(* >= 0 after each adjustment step (horizon tilt, gold opt-out, crypto     *)
(* opt-out, crypto cap) and after normalization; in particular the         *)
(* fixed-income weight is never negative after the horizon tilt.            *)
NonNegative(base) == \A k \in DOMAIN base : RGe(base[k], Zero)

C11_NonNegativeWeights ==
  ValidCall =>
    /\ \A k \in 0..Len(StepOrder) : NonNegative(WeightsAfter(k, inputs))
    /\ NonNegative(NormalizedWeights(inputs))
    /\ RGe(HorizonTilt(profiles[inputs.risk], inputs).fixed, Zero)

(* the smallest fixed-income weight under the long-horizon tilt, and a     *)
(* crypto weight clamped to a cap of 0                                      *)
C11_Witness ==
  /\ ValidCall
  /\ inputs.risk = "Aggressive" /\ inputs.horizon >= 10
  /\ inputs.includeCrypto /\ inputs.cryptoCapPct = Zero
  /\ WeightsAfter(1, inputs).fixed = Num(3)
  /\ NormalizedWeights(inputs).crypto = Zero

(* C12: each of the steps horizon tilt, gold opt-out, crypto opt-out and   *)
(* crypto cap leaves the sum of the six category weights at 100, for every *)
(* profile, horizon and cap, so the divisor of the normalization is        *)
(* exactly 100 (never zero or negative) and normalization leaves every     *)
(* weight unchanged.                                                        *)
C12_SumConserved ==
  ValidCall =>
    /\ \A k \in 0..Len(StepOrder) : WeightSum(WeightsAfter(k, inputs)) = Hundred
    /\ WeightSum(AdjustedWeights(inputs)) = Hundred
    /\ RGt(WeightSum(AdjustedWeights(inputs)), Zero)
    /\ NormalizedWeights(inputs) = AdjustedWeights(inputs)

(* a tilt, a gold opt-out and a cap below the profile's crypto weight all  *)
(* moved weight, and the divisor is 100                                     *)
C12_Witness ==
  /\ ValidCall
  /\ inputs.horizon >= 10 /\ ~inputs.includeGold
  /\ inputs.includeCrypto /\ RGt(profiles[inputs.risk].crypto, inputs.cryptoCapPct)
  /\ \A k \in {1, 2, 4} : WeightsAfter(k, inputs) # WeightsAfter(k - 1, inputs)
  /\ WeightSum(AdjustedWeights(inputs)) = Hundred

====
